---- MODULE Spec2Model ----
(***************************************************************************)
(* Movie API (src/app.py, with src/main.py as the unpaginated variant):    *)
(* five HTTP handlers over one JSON file, ./data/movies.json.  Every       *)
(* handler reads the whole file, works on its local copy `data`, and the   *)
(* mutating handlers write the whole file back.                            *)
(*                                                                         *)
(* Three specifications share the handlers:                                *)
(*   Spec      one worker: requests are served one after the other;        *)
(*   ConcSpec  two workers (two server processes on the same file), each   *)
(*             read_movies and each write_movies taken as one step;        *)
(*   TornSpec  two workers, write_movies split at its two system effects:  *)
(*             open(..., 'w') truncates, the dump is flushed on close.     *)
(***************************************************************************)
EXTENDS Integers, Sequences, FiniteSets, TLC

VARIABLES file, pc, req, data, resp

vars == <<file, pc, req, data, resp>>

(* ------------------------------ bounds --------------------------------- *)

\* movie ids are drawn from 1..MaxId
MaxId == 3
\* a create of a new id is only sent while the collection is shorter than this
MaxLen == 3
\* page numbers sent by clients are drawn from 1..MaxPage
MaxPage == 2
\* the two concurrent requests of ConcSpec and TornSpec carry ids from
\* 1..ConcMaxId and meet a collection of at most ConcMaxLen movies
ConcMaxId == 2
ConcMaxLen == 2

(* ------------------------- program constants --------------------------- *)

MIN_PAGE_SIZE == 1
MAX_PAGE_SIZE == 100
DEFAULT_PAGE_SIZE == 10

(* ------------------------------ values --------------------------------- *)

Ids == 1..MaxId

\* datetime.date objects and Python str objects, told apart as json.dump's
\* `default` hook tells them apart
PyDate(y, m, d) == [type |-> "date", year |-> y, month |-> m, day |-> d]
PyStr(cs) == [type |-> "str", chars |-> cs]

\* title, release_date and director of the request bodies that clients send
Variants ==
    { [title |-> "Alien", release_date |-> PyDate(1979, 5, 25), director |-> "Scott"],
      [title |-> "Heat", release_date |-> PyDate(1995, 12, 5), director |-> "Mann"] }

\* class Movie(BaseModel): a validated request body
Movie ==
    { [id |-> i, title |-> v.title, release_date |-> v.release_date,
       director |-> v.director] : i \in Ids, v \in Variants }

\* the values of the `size` query parameter that clients send
Sizes == {0, MIN_PAGE_SIZE, 2, DEFAULT_PAGE_SIZE, MAX_PAGE_SIZE, MAX_PAGE_SIZE + 1}

Pages == 1..MaxPage

Workers == {"w1", "w2"}

ConcIds == 1..ConcMaxId
ConcMovie == {m \in Movie : m.id \in ConcIds}

(* --------------------------- serialisation ----------------------------- *)

Digit(n) == <<"0", "1", "2", "3", "4", "5", "6", "7", "8", "9">>[n + 1]

\* '%04d' and '%02d'
Pad4(n) == <<Digit(n \div 1000), Digit((n \div 100) % 10), Digit((n \div 10) % 10), Digit(n % 10)>>
Pad2(n) == <<Digit((n \div 10) % 10), Digit(n % 10)>>

\* a date text with day and month swapped: 'YYYY-DD-MM'
str_date_day_first(d) ==
    PyStr(Pad4(d.year) \o <<"-">> \o Pad2(d.day) \o <<"-">> \o Pad2(d.month))

\* str(date) is date.isoformat(): 'YYYY-MM-DD'
str_date(d) == PyStr(Pad4(d.year) \o <<"-">> \o Pad2(d.month) \o <<"-">> \o Pad2(d.day))

\* json.dump's default=str, called for the values json cannot encode itself
json_default(o) == IF o.type = "date" THEN str_date(o) ELSE o

\* movie.dict(): the fields of the Movie, release_date still a date object
movie_dict(m) ==
    [id |-> m.id, title |-> m.title, release_date |-> m.release_date, director |-> m.director]

\* what json.load gives back for the text json.dump(data, f, default=str) wrote
json_dump(movies) ==
    [i \in 1..Len(movies) |->
        [id |-> movies[i].id, title |-> movies[i].title,
         release_date |-> json_default(movies[i].release_date),
         director |-> movies[i].director]]

DigitVal(c) == CHOOSE n \in 0..9 : Digit(n) = c

\* date.fromisoformat, as pydantic applies it to a 'YYYY-MM-DD' string
parse_date(s) ==
    LET v(i) == DigitVal(s.chars[i])
    IN  PyDate(v(1) * 1000 + v(2) * 100 + v(3) * 10 + v(4), v(6) * 10 + v(7), v(9) * 10 + v(10))

\* response_model=Movie: the returned dict or Movie is validated into a Movie
response_model(m) ==
    [id |-> m.id, title |-> m.title,
     release_date |-> IF m.release_date.type = "str" THEN parse_date(m.release_date)
                      ELSE m.release_date,
     director |-> m.director]

NumDigits(n) == IF n < 10 THEN 1 ELSE IF n < 100 THEN 2 ELSE 3

\* length of one encoded movie:
\* {"id": 1, "title": "..", "release_date": "YYYY-MM-DD", "director": ".."}
movie_len(m) == 57 + NumDigits(m.id) + Len(m.title) + 10 + Len(m.director)

RECURSIVE sum_len(_)
sum_len(movies) ==
    IF movies = <<>> THEN 0 ELSE movie_len(Head(movies)) + sum_len(Tail(movies))

\* length of the text json.dump writes: {"movies": [m1, m2, ...]}
json_len(movies) ==
    14 + sum_len(movies) + (IF Len(movies) > 1 THEN 2 * (Len(movies) - 1) ELSE 0)

(* ------------------------------ the file ------------------------------- *)

\* st = "ok": the file holds the complete JSON text of `movies`;
\* st = "torn": the file holds bytes json.load rejects (empty, or a complete
\* text followed by the tail of a longer one); st = "absent": no file
AbsentFile == [st |-> "absent", movies |-> <<>>, size |-> 0]
TornFile(n) == [st |-> "torn", movies |-> <<>>, size |-> n]
JsonFile(movies) == [st |-> "ok", movies |-> movies, size |-> json_len(movies)]

\* an initialisation without the os.path.exists test
initialize_json_always(f) == JsonFile(<<>>)

initialize_json(f) == IF f.st = "absent" THEN JsonFile(<<>>) ELSE f

\* read_movies succeeds exactly on a complete JSON text
Readable(f) == f.st = "ok"

(* ----------------------------- responses ------------------------------- *)

NoReq == [op |-> "none"]
NoResp == [status |-> 0]

Ok(body) == [status |-> 200, body |-> body]
HTTPException(code, detail) == [status |-> code, detail |-> detail]
\* an exception no handler catches: the framework answers 500
ServerError(exc) == [status |-> 500, detail |-> exc]
ReadError(f) == ServerError(IF f.st = "absent" THEN "FileNotFoundError" ELSE "JSONDecodeError")

(* --------------------------- handler helpers --------------------------- *)

\* a duplicate check that looks at the newest record only
any_id_last_only(movies, id) == movies # <<>> /\ movies[Len(movies)].id = id

\* any(m["id"] == movie.id for m in data["movies"])
any_id(movies, id) == \E i \in 1..Len(movies) : movies[i].id = id

\* a scan that keeps the last matching position instead of stopping at the first
last_index(movies, id) ==
    IF \E i \in 1..Len(movies) : movies[i].id = id
    THEN CHOOSE i \in 1..Len(movies) :
            /\ movies[i].id = id
            /\ \A j \in (i + 1)..Len(movies) : movies[j].id # id
    ELSE 0

\* a scan whose index keeps the last position when nothing matches
first_index_default_last(movies, id) ==
    IF \E i \in 1..Len(movies) : movies[i].id = id
    THEN CHOOSE i \in 1..Len(movies) :
            /\ movies[i].id = id
            /\ \A j \in 1..(i - 1) : movies[j].id # id
    ELSE Len(movies)

\* for i, m in enumerate(data["movies"]): if m["id"] == movie_id: ...
\* the first matching position, 0 when the loop falls through
first_index(movies, id) ==
    IF any_id(movies, id)
    THEN CHOOSE i \in 1..Len(movies) :
            /\ movies[i].id = id
            /\ \A j \in 1..(i - 1) : movies[j].id # id
    ELSE 0

\* an insert at the head of the list
prepend_movie(movies, m) == <<movie_dict(m)>> \o movies

\* data["movies"].append(movie.dict())
append_movie(movies, m) == Append(movies, movie_dict(m))

\* a replacement that keeps the stored id (the path id wins over the body's)
replace_at_keep_id(movies, i, m) ==
    [movies EXCEPT ![i] = [movie_dict(m) EXCEPT !.id = movies[i].id]]

\* data["movies"][i] = movie.dict()
replace_at(movies, i, m) == [movies EXCEPT ![i] = movie_dict(m)]

\* del data["movies"][i]
delete_at(movies, i) == SubSeq(movies, 1, i - 1) \o SubSeq(movies, i + 1, Len(movies))

\* ceil(total_items / items_per_page)
ceil_div(a, b) == (a + b - 1) \div b

Finish(p, r) ==
    /\ pc' = [pc EXCEPT ![p] = "done"]
    /\ resp' = [resp EXCEPT ![p] = r]
    /\ data' = [data EXCEPT ![p] = <<>>]

ToWrite(p, movies) ==
    /\ pc' = [pc EXCEPT ![p] = "write"]
    /\ data' = [data EXCEPT ![p] = movies]
    /\ UNCHANGED resp

(* ------------------------------ handlers ------------------------------- *)

\* a create without the duplicate check
create_movie_unchecked(p, movie) ==
    /\ pc[p] = "idle"
    /\ Readable(file) => Len(file.movies) < MaxLen
    /\ req' = [req EXCEPT ![p] = [op |-> "create", movie |-> movie]]
    /\ UNCHANGED file
    /\ IF ~Readable(file) THEN Finish(p, ReadError(file))
       ELSE ToWrite(p, append_movie(file.movies, movie))

\* POST /movies, up to the call of write_movies
\* (second conjunct: the bound MaxLen on the requests clients send)
create_movie(p, movie) ==
    /\ pc[p] = "idle"
    /\ Readable(file) /\ ~any_id(file.movies, movie.id) => Len(file.movies) < MaxLen
    /\ req' = [req EXCEPT ![p] = [op |-> "create", movie |-> movie]]
    /\ UNCHANGED file
    /\ IF ~Readable(file) THEN Finish(p, ReadError(file))
       ELSE IF any_id(file.movies, movie.id)
            THEN Finish(p, HTTPException(400, "Movie ID already exists"))
            ELSE ToWrite(p, append_movie(file.movies, movie))

\* an update that refuses a body whose id differs from the path id
update_movie_strict(p, movie_id, movie) ==
    /\ pc[p] = "idle"
    /\ req' = [req EXCEPT ![p] = [op |-> "update", movie_id |-> movie_id, movie |-> movie]]
    /\ UNCHANGED file
    /\ IF ~Readable(file) THEN Finish(p, ReadError(file))
       ELSE IF first_index(file.movies, movie_id) = 0
            THEN Finish(p, HTTPException(404, "Movie not found"))
            ELSE IF movie.id # movie_id
                 THEN Finish(p, HTTPException(400, "Movie ID mismatch"))
                 ELSE ToWrite(p, replace_at(file.movies, first_index(file.movies, movie_id), movie))

\* PUT /movies/{movie_id}, up to the call of write_movies
update_movie(p, movie_id, movie) ==
    /\ pc[p] = "idle"
    /\ req' = [req EXCEPT ![p] = [op |-> "update", movie_id |-> movie_id, movie |-> movie]]
    /\ UNCHANGED file
    /\ IF ~Readable(file) THEN Finish(p, ReadError(file))
       ELSE IF first_index(file.movies, movie_id) = 0
            THEN Finish(p, HTTPException(404, "Movie not found"))
            ELSE ToWrite(p, replace_at(file.movies, first_index(file.movies, movie_id), movie))

\* DELETE /movies/{movie_id}, up to the call of write_movies
delete_movie(p, movie_id) ==
    /\ pc[p] = "idle"
    /\ req' = [req EXCEPT ![p] = [op |-> "delete", movie_id |-> movie_id]]
    /\ UNCHANGED file
    /\ IF ~Readable(file) THEN Finish(p, ReadError(file))
       ELSE IF first_index(file.movies, movie_id) = 0
            THEN Finish(p, HTTPException(404, "Movie not found"))
            ELSE ToWrite(p, delete_at(file.movies, first_index(file.movies, movie_id)))

\* a lookup that keeps scanning and returns the last match
get_movie_last(p, movie_id) ==
    /\ pc[p] = "idle"
    /\ req' = [req EXCEPT ![p] = [op |-> "get", movie_id |-> movie_id]]
    /\ UNCHANGED file
    /\ IF ~Readable(file) THEN Finish(p, ReadError(file))
       ELSE IF last_index(file.movies, movie_id) = 0
            THEN Finish(p, HTTPException(404, "Movie not found"))
            ELSE Finish(p, Ok(response_model(file.movies[last_index(file.movies, movie_id)])))

\* GET /movies/{movie_id}
get_movie(p, movie_id) ==
    /\ pc[p] = "idle"
    /\ req' = [req EXCEPT ![p] = [op |-> "get", movie_id |-> movie_id]]
    /\ UNCHANGED file
    /\ IF ~Readable(file) THEN Finish(p, ReadError(file))
       ELSE IF first_index(file.movies, movie_id) = 0
            THEN Finish(p, HTTPException(404, "Movie not found"))
            ELSE Finish(p, Ok(response_model(file.movies[first_index(file.movies, movie_id)])))

\* GET /movies?page=..&size=..  The handler declares the single parameter
\* items_per_page (alias size, ge=MIN_PAGE_SIZE, le=MAX_PAGE_SIZE); the
\* query parameter page is not declared, so the framework drops it and the
\* name `page` is unbound in the body: evaluating it raises NameError, at
\* line 75 when total_items > 0 and at line 87 otherwise.
get_movies(p, page, size) ==
    /\ pc[p] = "idle"
    /\ req' = [req EXCEPT ![p] = [op |-> "list", page |-> page, size |-> size]]
    /\ UNCHANGED file
    /\ IF size < MIN_PAGE_SIZE \/ size > MAX_PAGE_SIZE
       THEN Finish(p, HTTPException(422, "validation error"))
       ELSE IF ~Readable(file) THEN Finish(p, ReadError(file))
       ELSE LET total_items == Len(file.movies)
                total_pages == ceil_div(total_items, size)
            IN  IF total_items > 0
                THEN \* line 75: `total_items > 0 and page > total_pages`
                     Finish(p, ServerError("NameError"))
                ELSE \* line 87: `start_idx = (page - 1) * items_per_page`
                     Finish(p, ServerError("NameError"))

\* GET /movies of src/main.py: the whole collection, response_model=List[Movie]
main_get_movies(p) ==
    /\ pc[p] = "idle"
    /\ req' = [req EXCEPT ![p] = [op |-> "list_all"]]
    /\ UNCHANGED file
    /\ IF ~Readable(file) THEN Finish(p, ReadError(file))
       ELSE Finish(p, Ok([i \in 1..Len(file.movies) |-> response_model(file.movies[i])]))

\* what the handler returns once write_movies has returned
Returned(r) ==
    IF r.op = "delete" THEN Ok([message |-> "Movie deleted"]) ELSE Ok(response_model(r.movie))

\* a writer that adds a created movie to whatever the file holds by now
write_movies_append(p) ==
    /\ pc[p] = "write"
    /\ file' = IF req[p].op = "create"
               THEN JsonFile(file.movies \o json_dump(<<movie_dict(req[p].movie)>>))
               ELSE JsonFile(json_dump(data[p]))
    /\ Finish(p, Returned(req[p]))
    /\ UNCHANGED req

\* write_movies(data) as one step, and the handler's return
write_movies(p) ==
    /\ pc[p] = "write"
    /\ file' = JsonFile(json_dump(data[p]))
    /\ Finish(p, Returned(req[p]))
    /\ UNCHANGED req

\* write_movies, first effect: open(JSON_FILE, 'w') truncates the file
write_open(p) ==
    /\ pc[p] = "write"
    /\ file' = TornFile(0)
    /\ pc' = [pc EXCEPT ![p] = "dump"]
    /\ UNCHANGED <<req, data, resp>>

\* write_movies, second effect: leaving the with block flushes the dumped
\* text at this handle's offset 0; bytes another writer put beyond its end
\* stay in the file
write_dump(p) ==
    /\ pc[p] = "dump"
    /\ file' = IF file.size > json_len(json_dump(data[p]))
               THEN TornFile(file.size)
               ELSE JsonFile(json_dump(data[p]))
    /\ Finish(p, Returned(req[p]))
    /\ UNCHANGED req

\* write_movies failing part-way: open(JSON_FILE, 'w') has truncated the
\* file, then json.dump or the flush on close raises OSError (disk full,
\* I/O error).  Nothing or all but the last byte of the text has reached the
\* file; no handler catches the exception.
write_fail(p) ==
    /\ pc[p] = "dump"
    /\ \E n \in {0, json_len(json_dump(data[p])) - 1} :
          file' = TornFile(IF n > file.size THEN n ELSE file.size)
    /\ Finish(p, ServerError("OSError"))
    /\ UNCHANGED req

\* the response leaves; the worker takes the next request
respond(p) ==
    /\ pc[p] = "done"
    /\ pc' = [pc EXCEPT ![p] = "idle"]
    /\ req' = [req EXCEPT ![p] = NoReq]
    /\ resp' = [resp EXCEPT ![p] = NoResp]
    /\ UNCHANGED <<file, data>>

\* the server process starts: the module is imported and line 45 runs
\* initialize_json()
boot(p) ==
    /\ pc[p] = "down"
    /\ file' = initialize_json(file)
    /\ pc' = [pc EXCEPT ![p] = "idle"]
    /\ req' = [req EXCEPT ![p] = [op |-> "startup"]]
    /\ UNCHANGED <<data, resp>>

\* the server process is stopped between two requests
stop(p) ==
    /\ pc[p] = "idle"
    /\ pc' = [pc EXCEPT ![p] = "down"]
    /\ req' = [req EXCEPT ![p] = NoReq]
    /\ UNCHANGED <<file, data, resp>>

(* --------------------------- specifications ---------------------------- *)

InitOver(W) ==
    /\ file = initialize_json(AbsentFile)
    /\ pc = [p \in W |-> "idle"]
    /\ req = [p \in W |-> NoReq]
    /\ data = [p \in W |-> <<>>]
    /\ resp = [p \in W |-> NoResp]

Init == InitOver({"w1"})

Next ==
    \E p \in {"w1"} :
        \/ \E m \in Movie : create_movie(p, m)
        \/ \E i \in Ids, m \in Movie : update_movie(p, i, m)
        \/ \E i \in Ids : delete_movie(p, i)
        \/ \E i \in Ids : get_movie(p, i)
        \/ \E g \in Pages, s \in Sizes : get_movies(p, g, s)
        \/ main_get_movies(p)
        \/ write_movies(p)
        \/ respond(p)

Spec == Init /\ [][Next]_vars

\* The collections two concurrent requests may meet: every sequence of
\* stored movies, duplicates of an id included, is left behind by some
\* sequence of creates and updates.
RECURSIVE SeqsUpTo(_, _)
SeqsUpTo(S, n) ==
    IF n = 0 THEN {<<>>}
    ELSE SeqsUpTo(S, n - 1) \cup
         {Append(q, x) : q \in {r \in SeqsUpTo(S, n - 1) : Len(r) = n - 1}, x \in S}

ConcInit ==
    /\ file \in {JsonFile(json_dump(q)) : q \in SeqsUpTo(ConcMovie, ConcMaxLen)}
    /\ pc = [p \in Workers |-> "idle"]
    /\ req = [p \in Workers |-> NoReq]
    /\ data = [p \in Workers |-> <<>>]
    /\ resp = [p \in Workers |-> NoResp]

\* two requests in flight, one per worker
ConcNext ==
    \E p \in Workers :
        \/ \E m \in ConcMovie : create_movie(p, m)
        \/ \E i \in ConcIds, m \in ConcMovie : update_movie(p, i, m)
        \/ \E i \in ConcIds : delete_movie(p, i)
        \/ write_movies(p)

ConcSpec == ConcInit /\ [][ConcNext]_vars

TornNext ==
    \E p \in Workers :
        \/ \E m \in ConcMovie : create_movie(p, m)
        \/ \E i \in ConcIds, m \in ConcMovie : update_movie(p, i, m)
        \/ \E i \in ConcIds : delete_movie(p, i)
        \/ \E i \in ConcIds : get_movie(p, i)
        \/ write_open(p)
        \/ write_dump(p)

TornSpec == ConcInit /\ [][TornNext]_vars

\* one worker, write_movies in two effects, the second of which may fail
FailNext ==
    \E p \in {"w1"} :
        \/ \E m \in Movie : create_movie(p, m)
        \/ \E i \in Ids, m \in Movie : update_movie(p, i, m)
        \/ \E i \in Ids : delete_movie(p, i)
        \/ \E i \in Ids : get_movie(p, i)
        \/ write_open(p)
        \/ write_dump(p)
        \/ write_fail(p)
        \/ respond(p)

FailSpec == Init /\ [][FailNext]_vars

\* before the first start the file is absent, or it exists already (here:
\* with no bytes in it); the server is started, serves requests one after
\* the other, is stopped and started again
BootInit ==
    /\ file \in {AbsentFile, TornFile(0)}
    /\ pc = [p \in {"w1"} |-> "down"]
    /\ req = [p \in {"w1"} |-> NoReq]
    /\ data = [p \in {"w1"} |-> <<>>]
    /\ resp = [p \in {"w1"} |-> NoResp]

BootNext ==
    \E p \in {"w1"} :
        \/ boot(p)
        \/ stop(p)
        \/ \E m \in Movie : create_movie(p, m)
        \/ \E i \in Ids, m \in Movie : update_movie(p, i, m)
        \/ \E i \in Ids : delete_movie(p, i)
        \/ \E i \in Ids : get_movie(p, i)
        \/ write_movies(p)
        \/ respond(p)

BootSpec == BootInit /\ [][BootNext]_vars

\* two workers serving request after request with overlapping reads and
\* writes; every update carries its path id in the body
UniqNext ==
    \E p \in Workers :
        \/ \E m \in ConcMovie : create_movie(p, m)
        \/ \E m \in ConcMovie : update_movie(p, m.id, m)
        \/ \E i \in ConcIds : delete_movie(p, i)
        \/ write_movies(p)
        \/ respond(p)

UniqInit == InitOver(Workers)

UniqSpec == UniqInit /\ [][UniqNext]_vars

(* ------------------------------- claims -------------------------------- *)

\* the workers of the specification being checked
Procs == DOMAIN pc

\* p's request starts in this step: the handler runs up to its first write
Starts(p, op) == pc[p] = "idle" /\ pc'[p] # "idle" /\ req'[p].op = op

\* p's write_movies returns in this step
Writes(p, op) == pc[p] = "write" /\ pc'[p] = "done" /\ req[p].op = op

HasId(movies, id) == \E i \in 1..Len(movies) : movies[i].id = id

\* the record the file holds for a Movie
Stored(m) == json_dump(<<m>>)[1]

\* C1: in every state reachable from the empty collection by create, update
\* and delete requests, the persisted collection holds at most one movie
\* per id.
C1_UniqueIds ==
    \A i, j \in 1..Len(file.movies) : file.movies[i].id = file.movies[j].id => i = j

\* C2: a create whose id is already in the collection fails with 400
\* "Movie ID already exists" and leaves the persisted collection as it was.
C2_DuplicateCreateRejected ==
    [][\A p \in Procs :
        (Starts(p, "create") /\ file.st = "ok" /\ HasId(file.movies, req'[p].movie.id))
            => /\ pc'[p] = "done"
               /\ resp'[p] = [status |-> 400, detail |-> "Movie ID already exists"]
               /\ file' = file]_vars

\* a duplicate create was refused on a collection of two movies, the
\* duplicated id not being the newest record's
C2_Witness ==
    \E p \in Procs :
        /\ pc[p] = "done" /\ req[p].op = "create" /\ resp[p].status = 400
        /\ Len(file.movies) = 2
        /\ file.movies[1].id = req[p].movie.id
        /\ file.movies[2].id # req[p].movie.id

Front(q) == SubSeq(q, 1, Len(q) - 1)

\* C3: a mutating request reads and writes in two steps with no lock, and
\* its write stores its own modified copy of what it read: it reports
\* success and the file is exactly that copy, so a movie another request
\* created after this one's read (two creates with distinct ids) is gone.
C3_LostUpdate ==
    [][\A p \in Procs :
        (pc[p] = "write" /\ pc'[p] = "done")
            => /\ resp'[p].status = 200
               /\ file'.st = "ok"
               /\ file'.movies = json_dump(data[p])
               /\ \A q \in Procs \ {p} :
                    ( /\ req[p].op = "create" /\ req[q].op = "create"
                      /\ pc[q] = "done" /\ resp[q].status = 200
                      /\ req[p].movie.id # req[q].movie.id
                      /\ file.movies # Front(data[p]) )
                        => /\ HasId(file'.movies, req[p].movie.id)
                           /\ ~HasId(file'.movies, req[q].movie.id)]_vars

\* two creates with distinct ids both answered 200, and the file holds the
\* movie of one of them only
C3_Witness ==
    \E p, q \in Procs :
        /\ p # q
        /\ pc[p] = "done" /\ pc[q] = "done"
        /\ req[p].op = "create" /\ req[q].op = "create"
        /\ resp[p].status = 200 /\ resp[q].status = 200
        /\ req[p].movie.id # req[q].movie.id
        /\ HasId(file.movies, req[p].movie.id)
        /\ ~HasId(file.movies, req[q].movie.id)

\* C4: no read_movies meets a truncated, partly written or unparseable
\* file, whatever write_movies it interleaves with: no request ends in the
\* 500 of an uncaught JSONDecodeError.
C4_AtomicReplace ==
    \A p \in Procs : resp[p] # [status |-> 500, detail |-> "JSONDecodeError"]

\* a list request with a valid size has been answered (one worker: the
\* file is still the collection the request read)
ListDone(p) ==
    /\ pc[p] = "done" /\ req[p].op = "list" /\ file.st = "ok"
    /\ req[p].size >= 1 /\ req[p].size <= 100

\* ceil(n / size): the least k with k * size >= n
TotalPages(n, size) == CHOOSE k \in 0..n : k * size >= n /\ \A h \in 0..(k - 1) : h * size < n

Min(a, b) == IF a < b THEN a ELSE b

\* the movies of a page, as the response carries them
PageOf(movies, page, size) ==
    LET sl == SubSeq(movies, (page - 1) * size + 1, Min(page * size, Len(movies)))
    IN  [i \in 1..Len(sl) |-> response_model(sl[i])]

\* C5: list reports total_pages = ceil(N / items_per_page), and page k of
\* 1..total_pages is the k-th run of items_per_page records of the
\* collection, so that the pages in order give back the collection.
C5_PagesPartitionCollection ==
    \A p \in Procs :
        (ListDone(p) /\ req[p].page <= TotalPages(Len(file.movies), req[p].size))
            => /\ resp[p].status = 200
               /\ resp[p].body.total_pages = TotalPages(Len(file.movies), req[p].size)
               /\ resp[p].body.movies = PageOf(file.movies, req[p].page, req[p].size)

\* C6: on a non-empty collection list fails with 404 exactly when
\* page > total_pages, the error carrying total_pages, current_page and
\* total_items, and succeeds with a non-empty slice otherwise.
C6_PageNotFound ==
    \A p \in Procs :
        (ListDone(p) /\ Len(file.movies) > 0)
            => IF req[p].page > TotalPages(Len(file.movies), req[p].size)
               THEN /\ resp[p].status = 404
                    /\ resp[p].detail.total_pages = TotalPages(Len(file.movies), req[p].size)
                    /\ resp[p].detail.current_page = req[p].page
                    /\ resp[p].detail.total_items = Len(file.movies)
               ELSE /\ resp[p].status = 200
                    /\ resp[p].body.movies # <<>>

\* C7: on the empty collection list succeeds for every page >= 1 and every
\* valid size, with total_items = 0, total_pages = 0, the requested page and
\* size, and no movies.
C7_EmptyCollectionPage ==
    \A p \in Procs :
        (ListDone(p) /\ file.movies = <<>>)
            => resp[p] = [status |-> 200,
                          body |-> [total_items |-> 0, total_pages |-> 0,
                                    current_page |-> req[p].page,
                                    items_per_page |-> req[p].size, movies |-> <<>>]]

\* C8: a create whose id is not in the collection goes on to write, returns
\* the submitted movie, and the file afterwards is the previous collection
\* followed by the new movie.
C8_CreateAppends ==
    [][\A p \in Procs :
        /\ (Starts(p, "create") /\ file.st = "ok" /\ ~HasId(file.movies, req'[p].movie.id))
              => pc'[p] = "write" /\ file' = file
        /\ Writes(p, "create")
              => /\ resp'[p] = [status |-> 200, body |-> req[p].movie]
                 /\ file'.st = "ok"
                 /\ file'.movies = Append(file.movies, Stored(req[p].movie))]_vars

\* a third movie was created behind two others; its date is stored as text
C8_Witness ==
    \E p \in Procs :
        /\ pc[p] = "done" /\ req[p].op = "create" /\ resp[p].status = 200
        /\ Len(file.movies) = 3
        /\ req[p].movie.title = "Heat"
        /\ file.movies[3].id = req[p].movie.id
        /\ file.movies[3].release_date =
              PyStr(<<"1", "9", "9", "5", "-", "1", "2", "-", "0", "5">>)

\* C9: an update replaces the first record with id movie_id by the whole
\* body at that position and leaves every other record and the length as
\* they were; with no such record it fails with 404 and writes nothing.
C9_UpdateReplacesFirst ==
    [][\A p \in Procs :
        /\ (Starts(p, "update") /\ file.st = "ok")
              => /\ file' = file
                 /\ IF HasId(file.movies, req'[p].movie_id)
                    THEN pc'[p] = "write"
                    ELSE /\ pc'[p] = "done"
                         /\ resp'[p] = [status |-> 404, detail |-> "Movie not found"]
        /\ Writes(p, "update")
              => /\ resp'[p].status = 200
                 /\ file'.st = "ok"
                 /\ \E k \in 1..Len(file.movies) :
                      /\ file.movies[k].id = req[p].movie_id
                      /\ \A j \in 1..(k - 1) : file.movies[j].id # req[p].movie_id
                      /\ file'.movies = [file.movies EXCEPT ![k] = Stored(req[p].movie)]]_vars

\* an update whose body id differs from its path id succeeded on a record
\* that is not the first of the collection
C9_Witness ==
    \E p \in Procs :
        /\ pc[p] = "done" /\ req[p].op = "update" /\ resp[p].status = 200
        /\ req[p].movie.id # req[p].movie_id
        /\ Len(file.movies) = 3
        /\ file.movies[2] = Stored(req[p].movie)
        /\ file.movies[1].id # req[p].movie.id

\* C10: a delete that matches removes exactly the first record with that
\* id, the others keeping content and order, and answers with the
\* confirmation message.
C10_DeleteRemovesFirst ==
    [][\A p \in Procs :
        /\ (Starts(p, "delete") /\ file.st = "ok" /\ HasId(file.movies, req'[p].movie_id))
              => pc'[p] = "write" /\ file' = file
        /\ Writes(p, "delete")
              => /\ resp'[p] = [status |-> 200, body |-> [message |-> "Movie deleted"]]
                 /\ file'.st = "ok"
                 /\ Len(file'.movies) = Len(file.movies) - 1
                 /\ \E k \in 1..Len(file.movies) :
                      /\ file.movies[k].id = req[p].movie_id
                      /\ \A j \in 1..(k - 1) : file.movies[j].id # req[p].movie_id
                      /\ file'.movies = SubSeq(file.movies, 1, k - 1)
                                          \o SubSeq(file.movies, k + 1, Len(file.movies))]_vars

\* a delete succeeded on a collection that held the id twice: one record
\* with that id is still there
C10_Witness ==
    \E p \in Procs :
        /\ pc[p] = "done" /\ req[p].op = "delete" /\ resp[p].status = 200
        /\ Len(file.movies) = 2
        /\ HasId(file.movies, req[p].movie_id)

\* C11: a delete whose movie_id matches no record fails with 404 "Movie
\* not found" without calling write_movies, and the file stays as it was.
C11_DeleteMissingRejected ==
    [][\A p \in Procs :
        (Starts(p, "delete") /\ file.st = "ok" /\ ~HasId(file.movies, req'[p].movie_id))
            => /\ pc'[p] = "done"
               /\ resp'[p] = [status |-> 404, detail |-> "Movie not found"]
               /\ file' = file]_vars

\* a delete of an absent id was refused on a collection of two movies
C11_Witness ==
    \E p \in Procs :
        /\ pc[p] = "done" /\ req[p].op = "delete" /\ resp[p].status = 404
        /\ Len(file.movies) = 2
        /\ ~HasId(file.movies, req[p].movie_id)

\* C12: once a create has written, the first record with the movie's id in
\* the file, validated by the response model, is the created movie field
\* for field (the date went to 'YYYY-MM-DD' text and back); and every get
\* answers from the file as it is when the request starts, so a get issued
\* right after the create returns the created movie.
C12_CreateGetRoundTrip ==
    [][\A p \in Procs :
        /\ Writes(p, "create")
              => \E k \in 1..Len(file'.movies) :
                    /\ file'.movies[k].id = req[p].movie.id
                    /\ \A j \in 1..(k - 1) : file'.movies[j].id # req[p].movie.id
                    /\ file'.movies[k].release_date.type = "str"
                    /\ response_model(file'.movies[k]) = req[p].movie
        /\ (Starts(p, "get") /\ file.st = "ok" /\ HasId(file.movies, req'[p].movie_id))
              => \E k \in 1..Len(file.movies) :
                    /\ file.movies[k].id = req'[p].movie_id
                    /\ \A j \in 1..(k - 1) : file.movies[j].id # req'[p].movie_id
                    /\ resp'[p] = [status |-> 200, body |-> response_model(file.movies[k])]]_vars

\* a get returned a movie with its release date as a date again, read from
\* a record that holds the date as text, behind another record
C12_Witness ==
    \E p \in Procs :
        /\ pc[p] = "done" /\ req[p].op = "get" /\ resp[p].status = 200
        /\ Len(file.movies) = 2
        /\ file.movies[2].id = req[p].movie_id
        /\ file.movies[1].id # req[p].movie_id
        /\ file.movies[2].release_date = PyStr(<<"1", "9", "7", "9", "-", "0", "5", "-", "2", "5">>)
        /\ resp[p].body.release_date = PyDate(1979, 5, 25)
        /\ resp[p].body.title = "Alien"

\* C13: when write_movies fails part-way the request reports an error and
\* the file still holds a complete collection, which the next read_movies
\* returns.
C13_FailedWriteKeepsPrior ==
    \A p \in Procs :
        (pc[p] = "done" /\ resp[p] = [status |-> 500, detail |-> "OSError"])
            => file.st = "ok"

\* C14: a start of the server creates the file with the empty collection
\* when it is absent and leaves an existing file, whatever it holds,
\* untouched; it never fails, and running the initialisation again on its
\* result changes nothing.
C14_InitializeIdempotent ==
    [][\A p \in Procs :
        (pc[p] = "down" /\ pc'[p] # "down")
            => /\ pc'[p] = "idle"
               /\ IF file.st = "absent"
                  THEN file' = [st |-> "ok", movies |-> <<>>, size |-> 14]
                  ELSE file' = file
               /\ initialize_json(file') = file']_vars

\* the server has just been started again on a file that holds two movies
C14_Witness ==
    \E p \in Procs :
        /\ pc[p] = "idle" /\ req[p].op = "startup"
        /\ file.st = "ok" /\ Len(file.movies) = 2

\* C15: an update is never refused for a body id that differs from the
\* path id: whenever the path id matches a record the request goes on to
\* write and answers 200 with the body, and the record at the matched
\* position then carries the body's id.
C15_UpdateStoresBodyId ==
    [][\A p \in Procs :
        /\ (Starts(p, "update") /\ file.st = "ok" /\ HasId(file.movies, req'[p].movie_id))
              => pc'[p] = "write"
        /\ Writes(p, "update")
              => /\ resp'[p] = [status |-> 200, body |-> req[p].movie]
                 /\ \E k \in 1..Len(file.movies) :
                      /\ file.movies[k].id = req[p].movie_id
                      /\ \A j \in 1..(k - 1) : file.movies[j].id # req[p].movie_id
                      /\ file'.movies[k].id = req[p].movie.id]_vars

\* an update with a body id other than its path id succeeded: the first
\* record now carries the body's id, which the second record carries too
C15_Witness ==
    \E p \in Procs :
        /\ pc[p] = "done" /\ req[p].op = "update" /\ resp[p].status = 200
        /\ req[p].movie.id # req[p].movie_id
        /\ Len(file.movies) = 2
        /\ file.movies[1].id = req[p].movie.id
        /\ file.movies[2].id = req[p].movie.id
        /\ ~HasId(file.movies, req[p].movie_id)

NoDuplicateId(movies) ==
    Cardinality({movies[i].id : i \in 1..Len(movies)}) = Len(movies)

\* C16: when every update carries its path id in the body, the file holds
\* at most one movie per id in every state, however the reads and writes
\* of concurrent creates, updates and deletes interleave: each copy a
\* request is about to write is itself free of duplicates.
C16_UniqueIdsWhenIdsAgree ==
    /\ NoDuplicateId(file.movies)
    /\ \A p \in Procs : NoDuplicateId(data[p])

\* an update has succeeded while a create that read an older collection is
\* still about to write its copy
C16_Witness ==
    \E p, q \in Procs :
        /\ pc[p] = "done" /\ req[p].op = "update" /\ resp[p].status = 200
        /\ pc[q] = "write" /\ req[q].op = "create"
        /\ Len(file.movies) = 2
        /\ file.movies # SubSeq(json_dump(data[q]), 1, Len(data[q]) - 1)

\* C17 as stated: of two creates with the same id, at most one is
\* answered 200, however their reads and writes interleave.
C17_AtMostOneCreateSucceeds ==
    \A p, q \in Procs :
        ( /\ p # q
          /\ pc[p] = "done" /\ pc[q] = "done"
          /\ req[p].op = "create" /\ req[q].op = "create"
          /\ req[p].movie.id = req[q].movie.id )
            => ~(resp[p].status = 200 /\ resp[q].status = 200)

\* C17 as amended: a create that reads after a create of the same id has
\* written fails with 400 "Movie ID already exists" and writes nothing; a
\* create that read before that write succeeds as well, and its write
\* leaves exactly one record with the id.
C17_SecondCreateAfterWriteFails ==
    [][\A p, q \in Procs :
        ( /\ p # q
          /\ pc[p] = "done" /\ req[p].op = "create" /\ resp[p].status = 200 )
            => /\ (Starts(q, "create") /\ req'[q].movie.id = req[p].movie.id)
                    => /\ pc'[q] = "done"
                       /\ resp'[q] = [status |-> 400, detail |-> "Movie ID already exists"]
                       /\ file' = file
               /\ (Writes(q, "create") /\ req[q].movie.id = req[p].movie.id)
                    => /\ resp'[q].status = 200
                       /\ Cardinality({i \in 1..Len(file'.movies) :
                                         file'.movies[i].id = req[q].movie.id}) = 1]_vars

\* the second of two creates with one id was refused after the first had
\* been answered 200
C17_Witness ==
    \E p, q \in Procs :
        /\ p # q
        /\ pc[p] = "done" /\ req[p].op = "create" /\ resp[p].status = 200
        /\ pc[q] = "done" /\ req[q].op = "create" /\ resp[q].status = 400
        /\ req[p].movie.id = req[q].movie.id
        /\ Len(file.movies) = 2

\* C18: right after a delete of movie_id has succeeded no record with
\* that id is left, so that a get of it fails with 404 and a create of it
\* succeeds.
C18_DeletedIdIsGone ==
    \A p \in Procs :
        (pc[p] = "done" /\ req[p].op = "delete" /\ resp[p].status = 200)
            => \A i \in 1..Len(file.movies) : file.movies[i].id # req[p].movie_id

\* C19: a list or a get never writes: it ends in the step that read the
\* file, with the file as it was, whether it answers 200, 404 or 500; and
\* a get answers with the first record, in collection order, whose id is
\* movie_id, or with 404 when there is none.
C19_ReadsDoNotWrite ==
    [][\A p \in Procs :
        /\ (Starts(p, "get") \/ Starts(p, "list") \/ Starts(p, "list_all"))
              => file' = file /\ pc'[p] = "done"
        /\ (Starts(p, "get") /\ file.st = "ok")
              => IF HasId(file.movies, req'[p].movie_id)
                 THEN \E k \in 1..Len(file.movies) :
                        /\ file.movies[k].id = req'[p].movie_id
                        /\ \A j \in 1..(k - 1) : file.movies[j].id # req'[p].movie_id
                        /\ resp'[p] = [status |-> 200, body |-> response_model(file.movies[k])]
                 ELSE resp'[p] = [status |-> 404, detail |-> "Movie not found"]]_vars

\* a get was answered from the first of two records that carry its id and
\* differ in their titles
C19_Witness ==
    \E p \in Procs :
        /\ pc[p] = "done" /\ req[p].op = "get" /\ resp[p].status = 200
        /\ Len(file.movies) = 2
        /\ file.movies[1].id = req[p].movie_id
        /\ file.movies[2].id = req[p].movie_id
        /\ file.movies[1].title # file.movies[2].title
        /\ resp[p].body.title = file.movies[1].title

====
